---- MODULE Spec2Model ----
(***************************************************************************)
(* The axum example of oxide-auth: an authorization server, a resource     *)
(* server sharing its issuer, and an OAuth2 client, run as three servers   *)
(* of one process (main.rs).  Handlers of one server run concurrently on   *)
(* the multi-threaded runtime; the model interleaves them at every lock    *)
(* acquisition and every network round-trip.                               *)
(*                                                                         *)
(* The primitives of the library (ClientMap, AuthMap, TokenMap) and its    *)
(* flows (authorization, access token, refresh, resource) are not part of  *)
(* the example sources; they are modelled from the written specification   *)
(* (sections 4.1 to 4.7).                                                  *)
(***************************************************************************)
EXTENDS Naturals, FiniteSets, Sequences, TLC

\* ---------------------------------------------------------------- bounds

MaxLogins == 1      \* authorizations the owner grants where callbacks are arbitrary
MaxCodes == 2       \* authorization codes the code store mints in a run
MaxTokens == 2      \* token pairs the token store mints in a run
MaxCsrf == 2        \* anti-forgery states the client mints in a run
NumServerReq == 2   \* authorization/resource server requests in flight
NumClientReq == 2   \* client handlers in progress at once

\* ------------------------------------------------------- program constants

SCOPE == "default-scope"
CLIENT_ID == "local_client_id"
CLIENT_SECRET == "local_client_secret"
REDIRECT_URI == "http://localhost:8080/redirect"

None == 0           \* Option::None of a code, a token or a state

\* Values a request can carry besides the registered ones.
Secrets == {CLIENT_SECRET, "wrong_secret"}
RedirectUris == {REDIRECT_URI, "http://localhost:9999/other"}
Codes == 1..MaxCodes
Tokens == 1..MaxTokens
CsrfStates == 1..MaxCsrf
SId == 1..NumServerReq
CId == 1..NumClientReq

\* The client main registers: Client::into(RegistrarClient), confidential.
RegisteredClient ==
    [id |-> CLIENT_ID, secret |-> CLIENT_SECRET,
     redirect_uri |-> REDIRECT_URI, scope |-> {SCOPE}]

VARIABLES
    registrar,        \* ServerState.registrar: the registered clients
    authorizer,       \* ServerState.authorizer: the live codes with their grants
    issuer,           \* ServerState.issuer: the live access and refresh tokens
    lock,             \* holder of each server mutex (0: free)
    nextCode,         \* next code the authorizer's generator yields
    nextToken,        \* next token pair the issuer's generator yields
    sreq,             \* the server handlers in progress, by slot
    code_grant_state, \* ClientStateInner.code_grant_state
    access_token,     \* ClientStateInner.access_token
    refresh_token,    \* ClientStateInner.refresh_token
    poisoned,         \* the client mutexes a panicking handler poisoned
    nextCsrf,         \* next value CsrfToken::new_random yields
    creq,             \* the client handlers in progress, by slot
    ev,               \* the client handler event of the last step, if any
    redemptions,      \* history: token pairs issued per authorization code
    rotations,        \* history: <<old, new>> of every refresh-token rotation
    attemptFailed,    \* history: a callback was rejected for a state mismatch
                      \* or an upstream error since the last get_index
    solicited         \* history: <<client_id, redirect_uri, state>> of every
                      \* consent page get_authorize rendered

serverVars == <<registrar, authorizer, issuer, lock, nextCode, nextToken, sreq>>
clientVars == <<code_grant_state, access_token, refresh_token, poisoned,
                nextCsrf, creq>>
histVars == <<redemptions, rotations, attemptFailed, solicited>>
vars == <<serverVars, clientVars, ev, histVars>>

\* ----------------------------------------------------- requests, responses

\* An OAuthRequest: query and body parameters and the authorization header.
\* A parameter a request does not carry is "" / None / {} / 0.
NoParams ==
    [response_type |-> "", client_id |-> "", redirect_uri |-> "",
     scope |-> {}, state |-> None, allow |-> 0, deny |-> FALSE,
     grant_type |-> "", code |-> None, refresh_token |-> None,
     secret |-> "", bearer |-> None]

NoResp ==
    [status |-> "", code |-> None, state |-> None,
     access |-> None, refresh |-> None, scope |-> {}]

Resp(status) == [NoResp EXCEPT !.status = status]

IdleS == [pc |-> "idle", kind |-> "", p |-> NoParams, origin |-> 0,
          resp |-> NoResp]

\* The query of the authorization URL get_index builds: authorize_url
\* with the client's scope and the anti-forgery state st.
ClientAuthorizeRequest(st) ==
    [NoParams EXCEPT !.response_type = "code", !.client_id = CLIENT_ID,
                     !.redirect_uri = REDIRECT_URI, !.scope = {SCOPE},
                     !.state = st]

\* The parameters of an authorization request as the registered client
\* sends them, and the same with one of them off or without a scope.
AuthzParams ==
    LET good == ClientAuthorizeRequest(None) IN
    {good, [good EXCEPT !.response_type = "token"],
     [good EXCEPT !.client_id = "unknown_client"],
     [good EXCEPT !.redirect_uri = "http://localhost:9999/other"],
     [good EXCEPT !.scope = {SCOPE, "admin"}],
     [good EXCEPT !.scope = {}]}

\* The requests a browser (or anyone else) can send to /authorize.
AuthorizeRequests ==
    { [p EXCEPT !.state = st] : p \in AuthzParams, st \in {None, 1} }
    \cup {NoParams}

\* The requests a browser (or anyone else) can post to /consent.
ConsentRequests ==
    { [p EXCEPT !.state = st, !.allow = al, !.deny = dn] :
        p \in AuthzParams, st \in {None, 1}, al \in 0..2, dn \in BOOLEAN }

\* The requests anyone can post to /token.
TokenRequests ==
    { [NoParams EXCEPT !.grant_type = "authorization_code", !.code = c,
                       !.redirect_uri = uri, !.client_id = CLIENT_ID,
                       !.secret = sec] :
        c \in Codes, uri \in RedirectUris, sec \in Secrets }
    \cup
    { [NoParams EXCEPT !.grant_type = "refresh_token", !.refresh_token = r,
                       !.scope = sc, !.client_id = CLIENT_ID, !.secret = sec] :
        r \in Tokens, sc \in {{}, {SCOPE}, {SCOPE, "admin"}}, sec \in Secrets }
    \cup
    { [NoParams EXCEPT !.grant_type = gt] : gt \in {"", "password"} }

\* The token request the client's oauth2 library builds for a code.
ClientCodeRequest(code) ==
    [NoParams EXCEPT !.grant_type = "authorization_code", !.code = code,
                     !.redirect_uri = REDIRECT_URI, !.client_id = CLIENT_ID,
                     !.secret = CLIENT_SECRET]

\* The token request the client's oauth2 library builds for a refresh token.
ClientRefreshRequest(r) ==
    [NoParams EXCEPT !.grant_type = "refresh_token", !.refresh_token = r,
                     !.client_id = CLIENT_ID, !.secret = CLIENT_SECRET]

\* ------------------------------------------- ClientRegistry (spec 4.1)

\* lookup(client_id): the registered clients of that identifier.
RegistrarLookup(reg, cid) == {c \in reg : c.id = cid}

\* authenticate(client_id, secret): a confidential client presents exactly
\* its registered secret.
RegistrarAuthenticate(reg, cid, secret) ==
    \E c \in RegistrarLookup(reg, cid) : c.secret = secret

\* A validation that leaves out the scope.
RegistrarValidateMutNoScope(reg, p) ==
    \E c \in RegistrarLookup(reg, p.client_id) :
        c.redirect_uri = p.redirect_uri

\* The validation of an authorization request against the registry: known
\* client, exactly the registered redirect URI, a scope the client may ask.
\* The consent page's follow-up request carries no scope parameter, so a
\* request without one is taken to ask for the client's registered scope.
RegistrarValidate(reg, p) ==
    \E c \in RegistrarLookup(reg, p.client_id) :
        /\ c.redirect_uri = p.redirect_uri
        /\ p.scope \subseteq c.scope

\* The scope of the pre-grant of a validated request.
RegistrarNegotiate(reg, p) ==
    IF p.scope # {} THEN p.scope
    ELSE (CHOOSE c \in RegistrarLookup(reg, p.client_id) : TRUE).scope

\* ------------------------------------------- CodeStore (spec 4.2)

Grant(p, owner) ==
    [client_id |-> p.client_id, redirect_uri |-> p.redirect_uri,
     scope |-> p.scope, owner |-> owner]

NoGrant == [client_id |-> "", redirect_uri |-> "", scope |-> {}, owner |-> ""]

\* issue(grant) -> code: records code -> grant under the fresh code.
AuthorizerIssue(az, code, grant) == az \cup {[code |-> code, grant |-> grant]}

AuthorizerLookup(az, code) == {e \in az : e.code = code}

\* A redeem that checks the code and leaves it in the store.
AuthorizerRedeemMutNoConsume(az, code, uri, consumeOnMismatch) ==
    LET found == AuthorizerLookup(az, code) IN
    IF found = {} THEN [ok |-> FALSE, grant |-> NoGrant, authorizer |-> az]
    ELSE LET e == CHOOSE x \in found : TRUE IN
         IF e.grant.redirect_uri # uri
         THEN [ok |-> FALSE, grant |-> NoGrant, authorizer |-> az]
         ELSE [ok |-> TRUE, grant |-> e.grant, authorizer |-> az]

\* redeem(code, presented_redirect_uri): one atomic check-and-consume.  An
\* unknown or used code fails; a redirect mismatch fails closed, and whether
\* it consumes the code is left open by the specification (consumeOnMismatch).
\* Yields the grant (ok) and the store afterwards.
AuthorizerRedeem(az, code, uri, consumeOnMismatch) ==
    LET found == AuthorizerLookup(az, code) IN
    IF found = {} THEN [ok |-> FALSE, grant |-> NoGrant, authorizer |-> az]
    ELSE LET e == CHOOSE x \in found : TRUE IN
         IF e.grant.redirect_uri # uri
         THEN [ok |-> FALSE, grant |-> NoGrant,
               authorizer |-> IF consumeOnMismatch THEN az \ found ELSE az]
         ELSE [ok |-> TRUE, grant |-> e.grant, authorizer |-> az \ found]

\* ------------------------------------------- TokenStore (spec 4.3)

EmptyIssuer == [access |-> {}, refresh |-> {}, expired |-> {}]

\* issue(grant) -> (access_token, optional refresh_token): the pair minted
\* together carries one number n: access token n and refresh token n.  A
\* token's record keeps the scope it grants and, for reference, the scope
\* of the grant its line of refreshes began with (orig).  expired holds
\* the access tokens whose expiry has passed.
IssuerIssue(iss, n, scope, withRefresh) ==
    LET e == [tok |-> n, scope |-> scope, orig |-> scope] IN
    [iss EXCEPT !.access = @ \cup {e},
                !.refresh = IF withRefresh THEN @ \cup {e} ELSE @]

IssuerRefreshLookup(iss, r) == {e \in iss.refresh : e.tok = r}

\* The record of access token t, expired or not.
IssuerAccessLookup(iss, t) == {e \in iss.access : e.tok = t}

\* validate(access_token) -> grant | Expired | NotFound: the expiry is
\* checked at validation.
IssuerValidate(iss, t) ==
    IF t \in iss.expired THEN {} ELSE IssuerAccessLookup(iss, t)

\* The expiry of access token t passes.
IssuerExpire(iss, t) == [iss EXCEPT !.expired = @ \cup {t}]

ValidRefresh(iss) == {e.tok : e \in iss.refresh}

\* A refresh that rotates and leaves the old pair valid.
IssuerRefreshMutKeepOld(iss, r, n, scope, rotate) ==
    LET old == CHOOSE x \in IssuerRefreshLookup(iss, r) : TRUE
        e == [tok |-> n, scope |-> scope, orig |-> old.orig] IN
    IF rotate
    THEN [iss EXCEPT !.access = @ \cup {e}, !.refresh = @ \cup {e}]
    ELSE [iss EXCEPT !.access = @ \cup {e}]

\* refresh(refresh_token, requested_scope), the store's part once the scope
\* is accepted: a new access token n; with rotation the old refresh token
\* and the access token minted with it are invalidated and refresh token n
\* is issued, all in one step.
IssuerRefresh(iss, r, n, scope, rotate) ==
    LET old == CHOOSE x \in IssuerRefreshLookup(iss, r) : TRUE
        e == [tok |-> n, scope |-> scope, orig |-> old.orig] IN
    IF rotate
    THEN [iss EXCEPT !.access = {x \in @ : x.tok # r} \cup {e},
                     !.refresh = {x \in @ : x.tok # r} \cup {e}]
    ELSE [iss EXCEPT !.access = @ \cup {e}]

\* A refresh scope that grants whatever is requested.
RefreshScopeMutNoCheck(grantScope, requested) ==
    IF requested = {} THEN grantScope ELSE requested

\* The scope a refresh grants: the requested one if it is within the
\* grant's, the grant's own if none is requested; {} if it exceeds it.
RefreshScope(grantScope, requested) ==
    IF requested = {} THEN grantScope
    ELSE IF requested \subseteq grantScope THEN requested ELSE {}

\* ------------------------------------------- the flows (spec 4.4, 4.5, 4.7)

\* AuthorizationFlow: entry validation (response_type, client, redirect URI,
\* scope) short-circuits to BadRequest; then the solicitor's decision:
\* InProgress renders the consent page, Denied redirects with access_denied
\* and no code, Authorized issues a code and redirects with it.
AuthorizationFlow(reg, az, p, consent, code) ==
    IF p.response_type # "code" \/ ~RegistrarValidate(reg, p)
    THEN [resp |-> Resp("BadRequest"), authorizer |-> az]
    ELSE IF consent = "InProgress"
    THEN [resp |-> [Resp("ConsentPage") EXCEPT
                      !.state = p.state,
                      !.scope = RegistrarNegotiate(reg, p)],
          authorizer |-> az]
    ELSE IF consent = "Denied"
    THEN [resp |-> [Resp("RedirectDenied") EXCEPT !.state = p.state],
          authorizer |-> az]
    ELSE [resp |-> [Resp("RedirectCode") EXCEPT !.code = code,
                                                !.state = p.state],
          authorizer |->
            AuthorizerIssue(az, code,
                Grant([p EXCEPT !.scope = RegistrarNegotiate(reg, p)],
                      "user"))]

\* TokenExchangeFlow, authorization_code: authenticate the client, redeem
\* the code, issue the pair n.
AccessTokenFlow(reg, az, iss, p, n, withRefresh, consumeOnMismatch) ==
    IF ~RegistrarAuthenticate(reg, p.client_id, p.secret)
    THEN [resp |-> Resp("InvalidClient"), authorizer |-> az, issuer |-> iss]
    ELSE LET r == AuthorizerRedeem(az, p.code, p.redirect_uri,
                                   consumeOnMismatch) IN
         IF ~r.ok
         THEN [resp |-> Resp("InvalidGrant"), authorizer |-> r.authorizer,
               issuer |-> iss]
         ELSE [resp |-> [Resp("TokenOk") EXCEPT
                           !.access = n,
                           !.refresh = IF withRefresh THEN n ELSE None,
                           !.scope = r.grant.scope],
               authorizer |-> r.authorizer,
               issuer |-> IssuerIssue(iss, n, r.grant.scope, withRefresh)]

\* TokenExchangeFlow, refresh_token: authenticate the client, look the
\* refresh token up, check the requested scope, refresh to the pair n.
RefreshFlow(reg, iss, p, n, rotate) ==
    IF ~RegistrarAuthenticate(reg, p.client_id, p.secret)
    THEN [resp |-> Resp("InvalidClient"), issuer |-> iss]
    ELSE LET found == IssuerRefreshLookup(iss, p.refresh_token) IN
         IF found = {}
         THEN [resp |-> Resp("InvalidGrant"), issuer |-> iss]
         ELSE LET g == CHOOSE x \in found : TRUE
                  sc == RefreshScope(g.scope, p.scope) IN
              IF sc = {}
              THEN [resp |-> Resp("InvalidScope"), issuer |-> iss]
              ELSE [resp |-> [Resp("TokenOk") EXCEPT
                                !.access = n,
                                !.refresh = IF rotate THEN n ELSE None,
                                !.scope = sc],
                    issuer |-> IssuerRefresh(iss, p.refresh_token, n, sc,
                                             rotate)]

\* The resource flow: a bearer token the store knows, unexpired, whose
\* scope covers the required one; otherwise the failure with its cause.
ResourceFlow(iss, p, required) ==
    IF p.bearer = None THEN "MissingToken"
    ELSE IF IssuerAccessLookup(iss, p.bearer) = {} THEN "UnknownToken"
    ELSE IF IssuerValidate(iss, p.bearer) = {} THEN "ExpiredToken"
    ELSE IF \E e \in IssuerValidate(iss, p.bearer) : required \subseteq e.scope
    THEN "Granted"
    ELSE "InsufficientScope"

\* ------------------------------------------- client records

\* The query of a redirect callback (RedirectQuery).
NoQuery == [error |-> FALSE, code |-> None, state |-> None]

RedirectQueries ==
    [error : BOOLEAN, code : {None} \cup Codes, state : {None} \cup CsrfStates]

\* A client handler in progress: its operation, the callback's query
\* (get_redirect), the refresh token it presents (post_refresh) and the token pair
\* it received or read (a, r), and the session mutexes whose guard it
\* keeps alive across its round-trip (guards).
IdleC == [pc |-> "idle", op |-> "", q |-> NoQuery, arg |-> None,
          a |-> None, r |-> None, guards |-> {}]

\* How the client handler of the last step answered, when it answered with
\* an error: the cause of get_redirect's error_response (an outcome of
\* RedirectCheck), or the Err of the token exchange of get_redirect
\* ("redirect_exchange_error") or post_refresh ("refresh_exchange_error").
\* NoEvent after any other step.
NoEvent == ""

ExchangeError(op) == IF op = "redirect" THEN "redirect_exchange_error"
                     ELSE "refresh_exchange_error"

\* ------------------------------------------- authorization server handlers

\* Handlers are anonymous: a new one takes the lowest free slot.
FreeS(s) ==
    /\ sreq[s].pc = "idle"
    /\ \A t \in SId : t < s => sreq[t].pc # "idle"

FreeC(c) ==
    /\ creq[c].pc = "idle"
    /\ \A d \in CId : d < c => creq[d].pc # "idle"

\* ServerState::endpoint locks registrar, authorizer and issuer, in the
\* order of the struct literal; each lock() blocks while the mutex is held.
Acquire(m, s) ==
    /\ lock[m] = 0
    /\ lock' = [lock EXCEPT ![m] = s]

\* An endpoint whose issuer guard outlives the handler.
ReleaseAllMutKeepIssuer(s) ==
    lock' = [m \in DOMAIN lock |->
               IF lock[m] = s /\ m # "issuer" THEN 0 ELSE lock[m]]

\* The Generic endpoint is a temporary of the handler's statement: its
\* guards are dropped together when the flow has run.
ReleaseAll(s) ==
    lock' = [m \in DOMAIN lock |-> IF lock[m] = s THEN 0 ELSE lock[m]]

\* A solicitor that takes either button of the consent page for consent.
PostConsentSolicitorMutDeny(p) ==
    IF p.allow = 1 \/ p.deny THEN "Authorized" ELSE "Denied"

\* The solicitor of post_consent: Authorized iff the query has a unique
\* value for allow.
PostConsentSolicitor(p) ==
    IF p.allow = 1 THEN "Authorized" ELSE "Denied"

\* A solicitor of get_authorize that takes the request for the consent.
ConsentSolicitorMutAuthorized(p) == "Authorized"

\* consent_solicitor, the solicitor of get_authorize: always InProgress.
ConsentSolicitor(p) == "InProgress"

\* The follow-up requests of the consent page consent_solicitor renders
\* for request p: the Accept and the Deny button post to /consent with the
\* query response_type=code, client_id, redirect_uri and, if there is one,
\* state, plus allow=true or deny=true.  The scope is shown on the page
\* and is not part of the query.
ConsentForm(p) ==
    LET query == [NoParams EXCEPT !.response_type = "code",
                                  !.client_id = p.client_id,
                                  !.redirect_uri = p.redirect_uri,
                                  !.state = p.state] IN
    {[query EXCEPT !.allow = 1], [query EXCEPT !.deny = TRUE]}

\* The token request of client handler c: what oauth2's exchange_code and
\* exchange_refresh_token build.
ClientTokenRequest(c) ==
    IF creq[c].op = "redirect" THEN ClientCodeRequest(creq[c].q.code)
    ELSE ClientRefreshRequest(creq[c].arg)

\* The values of grant_type a token request is sent with ("": no body or
\* no unique grant_type).
GrantTypes == {"authorization_code", "refresh_token", "", "password"}

\* A dispatch that takes every other grant_type for a refresh.
TokenDispatchMutDefaultRefresh(gt) ==
    IF gt = "authorization_code" THEN "access_token_flow"
    ELSE IF gt = "" THEN "bad_request"
    ELSE "refresh_flow"

\* post_token's dispatch on the body's unique grant_type.
TokenDispatch(gt) ==
    IF gt = "authorization_code" THEN "access_token_flow"
    ELSE IF gt = "refresh_token" THEN "refresh_flow"
    ELSE "bad_request"

\* post_token, up to the first lock: a body with a unique grant_type of
\* authorization_code or refresh_token enters endpoint().  c is the client
\* handler whose exchange this request is (0: sent by anyone else).
post_token_start(s, c, gt) ==
    /\ FreeS(s)
    /\ TokenDispatch(gt) # "bad_request"
    /\ IF c = 0 THEN UNCHANGED creq
       ELSE /\ nextToken <= MaxTokens
            /\ creq[c].pc = "send"
            /\ creq[c].op = IF gt = "authorization_code" THEN "redirect"
                            ELSE "refresh"
            /\ creq' = [creq EXCEPT ![c].pc = "wait"]
    /\ Acquire("registrar", s)
    /\ sreq' = [sreq EXCEPT ![s] =
                  [IdleS EXCEPT !.pc = "authorizer", !.kind = "token",
                                !.p = [NoParams EXCEPT !.grant_type = gt],
                                !.origin = c]]
    /\ ev' = NoEvent
    /\ UNCHANGED <<registrar, authorizer, issuer, nextCode, nextToken,
                   code_grant_state, access_token, refresh_token, poisoned,
                   nextCsrf, histVars>>

\* post_token with no body, no unique grant_type or another grant_type:
\* BadRequest, without entering endpoint().
post_token_bad(s, gt) ==
    /\ FreeS(s)
    /\ TokenDispatch(gt) = "bad_request"
    /\ sreq' = [sreq EXCEPT ![s] =
                  [IdleS EXCEPT !.pc = "release", !.kind = "token",
                                !.p = [NoParams EXCEPT !.grant_type = gt],
                                !.resp = Resp("BadRequest")]]
    /\ ev' = NoEvent
    /\ UNCHANGED <<registrar, authorizer, issuer, lock, nextCode, nextToken,
                   clientVars, histVars>>

endpoint_lock_authorizer(s) ==
    /\ sreq[s].pc = "authorizer"
    /\ Acquire("authorizer", s)
    /\ sreq' = [sreq EXCEPT ![s].pc = "issuer"]
    /\ ev' = NoEvent
    /\ UNCHANGED <<registrar, authorizer, issuer, nextCode, nextToken,
                   clientVars, histVars>>

endpoint_lock_issuer(s) ==
    /\ sreq[s].pc = "issuer"
    /\ Acquire("issuer", s)
    /\ sreq' = [sreq EXCEPT ![s].pc = "exec"]
    /\ ev' = NoEvent
    /\ UNCHANGED <<registrar, authorizer, issuer, nextCode, nextToken,
                   clientVars, histVars>>

\* post_token, the flow under the three locks: access_token_flow or
\* refresh_flow .execute(request), on the request p the handler was called
\* with.  opt is the issuer's choice to hand out (or rotate) a refresh
\* token, consume the code store's choice on a redirect mismatch.
post_token_execute(s, p, opt, consume) ==
    /\ sreq[s].pc = "exec"
    /\ sreq[s].kind = "token"
    /\ p.grant_type = sreq[s].p.grant_type
    /\ sreq[s].origin # 0 => p = ClientTokenRequest(sreq[s].origin)
    /\ LET isCode == TokenDispatch(p.grant_type) = "access_token_flow"
           out == IF isCode
                  THEN AccessTokenFlow(registrar, authorizer, issuer, p,
                                       nextToken, opt, consume)
                  ELSE [authorizer |-> authorizer] @@
                       RefreshFlow(registrar, issuer, p, nextToken, opt)
           ok == out.resp.status = "TokenOk" IN
       /\ ok => nextToken <= MaxTokens
       /\ authorizer' = out.authorizer
       /\ issuer' = out.issuer
       /\ nextToken' = IF ok THEN nextToken + 1 ELSE nextToken
       /\ sreq' = [sreq EXCEPT ![s].pc = "release", ![s].p = p,
                               ![s].resp = out.resp]
       /\ redemptions' = IF ok /\ isCode
                         THEN [redemptions EXCEPT ![p.code] = @ + 1]
                         ELSE redemptions
       /\ rotations' = IF ok /\ ~isCode /\ out.resp.refresh # None
                       THEN rotations \cup
                              {<<p.refresh_token, out.resp.refresh>>}
                       ELSE rotations
    /\ ev' = NoEvent
    /\ UNCHANGED <<registrar, lock, nextCode, clientVars, attemptFailed,
                   solicited>>

\* post_consent, up to the first lock.
post_consent_start(s) ==
    /\ FreeS(s)
    /\ Acquire("registrar", s)
    /\ sreq' = [sreq EXCEPT ![s] =
                  [IdleS EXCEPT !.pc = "authorizer", !.kind = "consent"]]
    /\ ev' = NoEvent
    /\ UNCHANGED <<registrar, authorizer, issuer, nextCode, nextToken,
                   clientVars, histVars>>

\* post_consent, the flow under the three locks: authorization_flow with
\* the allow/deny solicitor, on the request p.
post_consent_execute(s, p) ==
    /\ sreq[s].pc = "exec"
    /\ sreq[s].kind = "consent"
    /\ LET out == AuthorizationFlow(registrar, authorizer, p,
                                    PostConsentSolicitor(p), nextCode) IN
       /\ out.resp.status = "RedirectCode" => nextCode <= MaxCodes
       /\ authorizer' = out.authorizer
       /\ nextCode' = IF out.resp.status = "RedirectCode"
                      THEN nextCode + 1 ELSE nextCode
       /\ sreq' = [sreq EXCEPT ![s].pc = "release", ![s].p = p,
                               ![s].resp = out.resp]
    /\ ev' = NoEvent
    /\ UNCHANGED <<registrar, issuer, lock, nextToken, clientVars, histVars>>

\* get_authorize, up to the first lock: a request whose response_type is
\* "code" enters authorize_code.
get_authorize_start(s) ==
    /\ FreeS(s)
    /\ Acquire("registrar", s)
    /\ sreq' = [sreq EXCEPT ![s] =
                  [IdleS EXCEPT !.pc = "authorizer", !.kind = "authorize"]]
    /\ ev' = NoEvent
    /\ UNCHANGED <<registrar, authorizer, issuer, nextCode, nextToken,
                   clientVars, histVars>>

\* get_authorize without parameters or with another response_type:
\* BadRequest, without entering endpoint().
get_authorize_bad(s, p) ==
    /\ FreeS(s)
    /\ p.response_type # "code"
    /\ sreq' = [sreq EXCEPT ![s] =
                  [IdleS EXCEPT !.pc = "release", !.kind = "authorize",
                                !.p = p, !.resp = Resp("BadRequest")]]
    /\ ev' = NoEvent
    /\ UNCHANGED <<registrar, authorizer, issuer, lock, nextCode, nextToken,
                   clientVars, histVars>>

\* authorize_code, the flow under the three locks: authorization_flow with
\* consent_solicitor, on the request p.
get_authorize_execute(s, p) ==
    /\ sreq[s].pc = "exec"
    /\ sreq[s].kind = "authorize"
    /\ p.response_type = "code"
    /\ LET out == AuthorizationFlow(registrar, authorizer, p,
                                    ConsentSolicitor(p), nextCode) IN
       /\ out.resp.status = "RedirectCode" => nextCode <= MaxCodes
       /\ authorizer' = out.authorizer
       /\ nextCode' = IF out.resp.status = "RedirectCode"
                      THEN nextCode + 1 ELSE nextCode
       /\ sreq' = [sreq EXCEPT ![s].pc = "release", ![s].p = p,
                               ![s].resp = out.resp]
       /\ solicited' = IF out.resp.status = "ConsentPage"
                       THEN solicited \cup
                              {<<p.client_id, p.redirect_uri, p.state>>}
                       ELSE solicited
    /\ ev' = NoEvent
    /\ UNCHANGED <<registrar, issuer, lock, nextToken, clientVars,
                   redemptions, rotations, attemptFailed>>

\* ------------------------------------------- resource server handler

\* A handler that tells an expired token apart from the other failures.
ResourceResponseMutLeak(result) ==
    IF result = "Granted" THEN Resp("ResourceOk")
    ELSE IF result = "ExpiredToken" THEN Resp("Expired")
    ELSE Resp("Unauthorized")

\* ResourceServer::resource on the flow's result: the resource on Ok, 401
\* on any Err.
ResourceResponse(result) ==
    IF result = "Granted" THEN Resp("ResourceOk") ELSE Resp("Unauthorized")

\* ResourceServer::resource, up to the lock: its endpoint() locks the
\* shared issuer only.  c is the get_home handler whose request this is.
resource_start(s, c) ==
    /\ FreeS(s)
    /\ IF c = 0 THEN UNCHANGED creq
       ELSE /\ creq[c].pc = "send"
            /\ creq[c].op = "home"
            /\ creq' = [creq EXCEPT ![c].pc = "wait"]
    /\ Acquire("issuer", s)
    /\ sreq' = [sreq EXCEPT ![s] =
                  [IdleS EXCEPT !.pc = "exec", !.kind = "resource",
                                !.origin = c]]
    /\ ev' = NoEvent
    /\ UNCHANGED <<registrar, authorizer, issuer, nextCode, nextToken,
                   code_grant_state, access_token, refresh_token, poisoned,
                   nextCsrf, histVars>>

\* A resource server built with a token store of its own, which never
\* issued a token.
resource_execute_MutOwnStore(s, b) ==
    /\ sreq[s].pc = "exec"
    /\ sreq[s].kind = "resource"
    /\ sreq[s].origin # 0 => b = creq[sreq[s].origin].a
    /\ LET p == [NoParams EXCEPT !.bearer = b] IN
       sreq' = [sreq EXCEPT ![s].pc = "release", ![s].p = p,
                            ![s].resp =
                               ResourceResponse(
                                   ResourceFlow(EmptyIssuer, p, {SCOPE}))]
    /\ ev' = NoEvent
    /\ UNCHANGED <<registrar, authorizer, issuer, lock, nextCode, nextToken,
                   clientVars, histVars>>

\* ResourceServer::resource, the resource flow under the lock, on a request
\* with bearer token b, against the issuer main shares between the two
\* servers; any failure is 401.
resource_execute(s, b) ==
    /\ sreq[s].pc = "exec"
    /\ sreq[s].kind = "resource"
    /\ sreq[s].origin # 0 => b = creq[sreq[s].origin].a
    /\ LET p == [NoParams EXCEPT !.bearer = b] IN
       sreq' = [sreq EXCEPT ![s].pc = "release", ![s].p = p,
                            ![s].resp =
                               ResourceResponse(
                                   ResourceFlow(issuer, p, {SCOPE}))]
    /\ ev' = NoEvent
    /\ UNCHANGED <<registrar, authorizer, issuer, lock, nextCode, nextToken,
                   clientVars, histVars>>

\* The end of a server handler's statement: the guards are dropped and the
\* response leaves; the slot keeps a client handler's response until the
\* client takes it.
server_respond(s) ==
    /\ sreq[s].pc = "release"
    /\ ReleaseAll(s)
    /\ sreq' = [sreq EXCEPT ![s] =
                  IF sreq[s].origin = 0 THEN IdleS
                  ELSE [IdleS EXCEPT !.pc = "done",
                                     !.origin = sreq[s].origin,
                                     !.resp = sreq[s].resp]]
    /\ ev' = NoEvent
    /\ UNCHANGED <<registrar, authorizer, issuer, nextCode, nextToken,
                   clientVars, histVars>>

\* Time passes the expiry of access token t.
access_token_expires(t) ==
    /\ IssuerValidate(issuer, t) # {}
    /\ issuer' = IssuerExpire(issuer, t)
    /\ ev' = NoEvent
    /\ UNCHANGED <<registrar, authorizer, lock, nextCode, nextToken, sreq,
                   clientVars, histVars>>

\* ------------------------------------------- client handlers

\* lock() of a session mutex returns once no handler holds its guard.
MutexFree(m) == \A c \in CId : m \notin creq[c].guards

\* A panic while a MutexGuard is alive poisons the mutex; every later
\* lock().unwrap() of a poisoned mutex panics.
Poisoned(m) == m \in poisoned

\* A get_index that keeps a state that is already stored.
get_index_MutKeepFirst ==
    /\ nextCsrf <= MaxCsrf
    /\ MutexFree("code_grant_state")
    /\ code_grant_state' = IF code_grant_state = None THEN nextCsrf
                           ELSE code_grant_state
    /\ nextCsrf' = nextCsrf + 1
    /\ ev' = NoEvent
    /\ attemptFailed' = FALSE
    /\ UNCHANGED <<serverVars, access_token, refresh_token, poisoned, creq,
                   redemptions, rotations, solicited>>

\* get_index: mints the anti-forgery state of the authorization URL and
\* stores it, replacing the previous one.
get_index ==
    /\ nextCsrf <= MaxCsrf
    /\ MutexFree("code_grant_state")
    /\ code_grant_state' = nextCsrf
    /\ nextCsrf' = nextCsrf + 1
    /\ ev' = NoEvent
    /\ attemptFailed' = FALSE
    /\ UNCHANGED <<serverVars, access_token, refresh_token, poisoned, creq,
                   redemptions, rotations, solicited>>

\* Checks of a callback that leave out the comparison with the stored state.
RedirectCheckMutNoCompare(q, stored) ==
    IF q.error THEN "upstream_error"
    ELSE IF q.code = None THEN "no_code"
    ELSE IF q.state = None THEN "no_state"
    ELSE IF stored = None THEN "missing_state"
    ELSE "exchange"

\* Checks of a callback that leave out the error parameter.
RedirectCheckMutNoError(q, stored) ==
    IF q.code = None THEN "no_code"
    ELSE IF q.state = None THEN "no_state"
    ELSE IF stored = None THEN "missing_state"
    ELSE IF q.state # stored THEN "state_mismatch"
    ELSE "exchange"

\* get_redirect, up to the exchange: the checks of the callback's query
\* against the stored state, in the order of the code.  "exchange" means
\* the code-for-token request is sent.
RedirectCheck(q, stored) ==
    IF q.error THEN "upstream_error"
    ELSE IF q.code = None THEN "no_code"
    ELSE IF q.state = None THEN "no_state"
    ELSE IF stored = None THEN "missing_state"
    ELSE IF q.state # stored THEN "state_mismatch"
    ELSE "exchange"

\* get_redirect answering with error_response: nothing is sent or stored.
get_redirect_reject(q) ==
    /\ RedirectCheck(q, code_grant_state) # "exchange"
    /\ RedirectCheck(q, code_grant_state) \in {"missing_state", "state_mismatch"}
          => MutexFree("code_grant_state")
    /\ ev' = RedirectCheck(q, code_grant_state)
    /\ attemptFailed' =
         (attemptFailed \/ RedirectCheck(q, code_grant_state)
                             \in {"state_mismatch", "upstream_error"})
    /\ UNCHANGED <<serverVars, clientVars, redemptions, rotations, solicited>>

\* get_redirect passing its checks: exchange_code(code).request_async is
\* sent; the stored state is read, not taken.
get_redirect_accept(c, q) ==
    /\ FreeC(c)
    /\ MutexFree("code_grant_state")
    /\ RedirectCheck(q, code_grant_state) = "exchange"
    /\ creq' = [creq EXCEPT ![c] =
                  [IdleC EXCEPT !.pc = "send", !.op = "redirect", !.q = q]]
    /\ ev' = NoEvent
    /\ UNCHANGED <<serverVars, code_grant_state, access_token, refresh_token,
                   poisoned, nextCsrf, histVars>>

\* A post_refresh that binds the guard of the refresh token to a variable
\* and keeps it alive across the exchange.
post_refresh_start_MutHoldGuard(c) ==
    /\ FreeC(c)
    /\ MutexFree("refresh_token")
    /\ IF Poisoned("refresh_token")
       THEN UNCHANGED <<creq, poisoned>>
       ELSE IF refresh_token = None
       THEN /\ poisoned' = poisoned \cup {"refresh_token"}
            /\ UNCHANGED creq
       ELSE /\ creq' = [creq EXCEPT ![c] =
                          [IdleC EXCEPT !.pc = "send", !.op = "refresh",
                                        !.arg = refresh_token,
                                        !.guards = {"refresh_token"}]]
            /\ UNCHANGED poisoned
    /\ ev' = NoEvent
    /\ UNCHANGED <<serverVars, code_grant_state, access_token, refresh_token,
                   nextCsrf, histVars>>

\* post_refresh, up to the exchange: the stored refresh token is cloned
\* and unwrapped under its lock, in one statement whose end drops the
\* guard; with none stored the handler panics with the guard alive.
post_refresh_start(c) ==
    /\ FreeC(c)
    /\ MutexFree("refresh_token")
    /\ IF Poisoned("refresh_token")
       THEN UNCHANGED <<creq, poisoned>>
       ELSE IF refresh_token = None
       THEN /\ poisoned' = poisoned \cup {"refresh_token"}
            /\ UNCHANGED creq
       ELSE /\ creq' = [creq EXCEPT ![c] =
                          [IdleC EXCEPT !.pc = "send", !.op = "refresh",
                                        !.arg = refresh_token]]
            /\ UNCHANGED poisoned
    /\ ev' = NoEvent
    /\ UNCHANGED <<serverVars, code_grant_state, access_token, refresh_token,
                   nextCsrf, histVars>>

\* get_home, the first block: the stored access token is unwrapped under
\* its lock; with none stored the handler panics with the guard alive.
get_home_start(c) ==
    /\ FreeC(c)
    /\ MutexFree("access_token")
    /\ IF Poisoned("access_token")
       THEN UNCHANGED <<creq, poisoned>>
       ELSE IF access_token = None
       THEN /\ poisoned' = poisoned \cup {"access_token"}
            /\ UNCHANGED creq
       ELSE /\ creq' = [creq EXCEPT ![c] =
                          [IdleC EXCEPT !.pc = "read_refresh", !.op = "home",
                                        !.a = access_token]]
            /\ UNCHANGED poisoned
    /\ ev' = NoEvent
    /\ UNCHANGED <<serverVars, code_grant_state, access_token, refresh_token,
                   nextCsrf, histVars>>

\* get_home, the second block: the stored refresh token is read under its
\* own lock, and the resource request is sent with the access token read
\* before.
get_home_read_refresh(c) ==
    /\ creq[c].pc = "read_refresh"
    /\ MutexFree("refresh_token")
    /\ IF Poisoned("refresh_token")
       THEN creq' = [creq EXCEPT ![c] = IdleC]
       ELSE creq' = [creq EXCEPT ![c].pc = "send", ![c].r = refresh_token]
    /\ ev' = NoEvent
    /\ UNCHANGED <<serverVars, code_grant_state, access_token, refresh_token,
                   poisoned, nextCsrf, histVars>>

\* A request of a client handler that never reaches its server: the token
\* exchanges return Err, get_home unwraps the error and panics.
client_send_fail(c) ==
    /\ creq[c].pc = "send"
    /\ creq' = [creq EXCEPT ![c] = IdleC]
    /\ ev' = IF creq[c].op = "home" THEN NoEvent ELSE ExchangeError(creq[c].op)
    /\ UNCHANGED <<serverVars, code_grant_state, access_token, refresh_token,
                   poisoned, nextCsrf, histVars>>

\* The end of a round-trip where a failed exchange drops the stored
\* access token.
client_recv_MutClearOnErr(c, s, lost) ==
    /\ creq[c].pc = "wait"
    /\ sreq[s].pc = "done"
    /\ sreq[s].origin = c
    /\ sreq' = [sreq EXCEPT ![s] = IdleS]
    /\ IF creq[c].op = "home"
       THEN /\ creq' = [creq EXCEPT ![c] = IdleC]
            /\ ev' = NoEvent
            /\ UNCHANGED access_token
       ELSE IF lost \/ sreq[s].resp.status # "TokenOk"
       THEN /\ creq' = [creq EXCEPT ![c] = IdleC]
            /\ ev' = ExchangeError(creq[c].op)
            /\ access_token' = None
       ELSE /\ creq' = [creq EXCEPT ![c].pc = "store_access",
                                    ![c].a = sreq[s].resp.access,
                                    ![c].r = sreq[s].resp.refresh]
            /\ ev' = NoEvent
            /\ UNCHANGED access_token
    /\ UNCHANGED <<registrar, authorizer, issuer, lock, nextCode, nextToken,
                   code_grant_state, refresh_token, poisoned, nextCsrf,
                   histVars>>

\* The end of a round-trip where get_home sends its request again when
\* the resource server refused it.
client_recv_MutRetryHome(c, s, lost) ==
    /\ creq[c].pc = "wait"
    /\ sreq[s].pc = "done"
    /\ sreq[s].origin = c
    /\ sreq' = [sreq EXCEPT ![s] = IdleS]
    /\ IF creq[c].op = "home"
       THEN /\ creq' = IF sreq[s].resp.status = "Unauthorized"
                       THEN [creq EXCEPT ![c].pc = "send"]
                       ELSE [creq EXCEPT ![c] = IdleC]
            /\ ev' = NoEvent
       ELSE IF lost \/ sreq[s].resp.status # "TokenOk"
       THEN /\ creq' = [creq EXCEPT ![c] = IdleC]
            /\ ev' = ExchangeError(creq[c].op)
       ELSE /\ creq' = [creq EXCEPT ![c].pc = "store_access",
                                    ![c].a = sreq[s].resp.access,
                                    ![c].r = sreq[s].resp.refresh]
            /\ ev' = NoEvent
    /\ UNCHANGED <<registrar, authorizer, issuer, lock, nextCode, nextToken,
                   code_grant_state, access_token, refresh_token, poisoned,
                   nextCsrf, histVars>>

\* The end of a client handler's round-trip.  A token exchange whose
\* response is lost or is an error response returns Err, and the handler
\* answers with the error; otherwise it goes on to store the tokens.
\* get_home renders whatever the resource server answered.
client_recv(c, s, lost) ==
    /\ creq[c].pc = "wait"
    /\ sreq[s].pc = "done"
    /\ sreq[s].origin = c
    /\ sreq' = [sreq EXCEPT ![s] = IdleS]
    /\ IF creq[c].op = "home"
       THEN /\ creq' = [creq EXCEPT ![c] = IdleC]
            /\ ev' = NoEvent
       ELSE IF lost \/ sreq[s].resp.status # "TokenOk"
       THEN /\ creq' = [creq EXCEPT ![c] = IdleC]
            /\ ev' = ExchangeError(creq[c].op)
       ELSE /\ creq' = [creq EXCEPT ![c].pc = "store_access",
                                    ![c].a = sreq[s].resp.access,
                                    ![c].r = sreq[s].resp.refresh]
            /\ ev' = NoEvent
    /\ UNCHANGED <<registrar, authorizer, issuer, lock, nextCode, nextToken,
                   code_grant_state, access_token, refresh_token, poisoned,
                   nextCsrf, histVars>>

\* get_redirect and post_refresh storing the access token of the response
\* under the access_token lock.  get_redirect goes on to the refresh token
\* only if the response has one.
client_store_access(c) ==
    /\ creq[c].pc = "store_access"
    /\ MutexFree("access_token")
    /\ IF Poisoned("access_token")
       THEN /\ creq' = [creq EXCEPT ![c] = IdleC]
            /\ UNCHANGED access_token
       ELSE /\ access_token' = creq[c].a
            /\ IF creq[c].op = "redirect" /\ creq[c].r = None
               THEN creq' = [creq EXCEPT ![c] = IdleC]
               ELSE creq' = [creq EXCEPT ![c].pc = "store_refresh"]
    /\ ev' = NoEvent
    /\ UNCHANGED <<serverVars, code_grant_state, refresh_token, poisoned,
                   nextCsrf, histVars>>

\* get_redirect replacing the stored refresh token by the response's, and
\* post_refresh assigning the response's optional refresh token, under the
\* refresh_token lock.
client_store_refresh(c) ==
    /\ creq[c].pc = "store_refresh"
    /\ MutexFree("refresh_token")
    /\ creq' = [creq EXCEPT ![c] = IdleC]
    /\ IF Poisoned("refresh_token")
       THEN UNCHANGED refresh_token
       ELSE refresh_token' = creq[c].r
    /\ ev' = NoEvent
    /\ UNCHANGED <<serverVars, code_grant_state, access_token, poisoned,
                   nextCsrf, histVars>>

\* ------------------------------------------- the system

\* main: the servers are built, the client is registered, nothing is in
\* flight.
Init ==
    /\ registrar = {RegisteredClient}
    /\ authorizer = {}
    /\ issuer = EmptyIssuer
    /\ lock = [m \in {"registrar", "authorizer", "issuer"} |-> 0]
    /\ nextCode = 1
    /\ nextToken = 1
    /\ sreq = [s \in SId |-> IdleS]
    /\ code_grant_state = None
    /\ access_token = None
    /\ refresh_token = None
    /\ poisoned = {}
    /\ nextCsrf = 1
    /\ creq = [c \in CId |-> IdleC]
    /\ ev = NoEvent
    /\ redemptions = [c \in Codes |-> 0]
    /\ rotations = {}
    /\ attemptFailed = FALSE
    /\ solicited = {}

\* The consent decisions the owner's browser posts from the consent page
\* of the registered client's authorization request.
OwnerDecisions == ConsentForm(ClientAuthorizeRequest(1))

\* The owner presses a button of the consent page the client's
\* authorization URL led to: one decision at a time, after a login page was
\* opened, for at most n authorizations.
owner_post_consent(s, n) ==
    /\ code_grant_state # None
    /\ nextCode <= n
    /\ \A t \in SId : sreq[t].kind # "consent"
    /\ post_consent_start(s)

\* The client with the servers it talks to: the owner decides on consent
\* pages, the browser calls the client's routes with any callback query,
\* and the client's exchanges and resource requests are served.
Next ==
    \/ \E s \in SId, c \in CId,
          gt \in {"authorization_code", "refresh_token"} :
            post_token_start(s, c, gt)
    \/ \E s \in SId : endpoint_lock_authorizer(s)
    \/ \E s \in SId : endpoint_lock_issuer(s)
    \/ \E s \in SId, p \in TokenRequests, opt \in BOOLEAN :
            post_token_execute(s, p, opt, TRUE)
    \/ \E s \in SId : owner_post_consent(s, MaxLogins)
    \/ \E s \in SId, p \in OwnerDecisions : post_consent_execute(s, p)
    \/ \E s \in SId, c \in CId : resource_start(s, c)
    \/ \E s \in SId, b \in {None} \cup Tokens : resource_execute(s, b)
    \/ \E s \in SId : server_respond(s)
    \/ get_index
    \/ \E q \in RedirectQueries : get_redirect_reject(q)
    \/ \E c \in CId, q \in RedirectQueries : get_redirect_accept(c, q)
    \/ \E c \in CId : post_refresh_start(c)
    \/ \E c \in CId : get_home_start(c)
    \/ \E c \in CId : get_home_read_refresh(c)
    \/ \E c \in CId : client_send_fail(c)
    \/ \E c \in CId, s \in SId, lost \in BOOLEAN : client_recv(c, s, lost)
    \/ \E c \in CId : client_store_access(c)
    \/ \E c \in CId : client_store_refresh(c)

Spec == Init /\ [][Next]_vars

\* The client's session over repeated authorizations: the owner logs in
\* and approves or denies more than once, the browser follows the redirects
\* with the codes that were issued and the stored state, refreshes and home
\* pages are requested at any time, handlers run concurrently, and every
\* request reaches its server.
SessionNext ==
    \/ \E s \in SId, c \in CId,
          gt \in {"authorization_code", "refresh_token"} :
            post_token_start(s, c, gt)
    \/ \E s \in SId : endpoint_lock_authorizer(s)
    \/ \E s \in SId : endpoint_lock_issuer(s)
    \/ \E s \in SId, p \in TokenRequests, opt \in BOOLEAN :
            post_token_execute(s, p, opt, TRUE)
    \/ \E s \in SId : owner_post_consent(s, MaxCodes)
    \/ \E s \in SId, p \in OwnerDecisions : post_consent_execute(s, p)
    \/ \E s \in SId, c \in CId : resource_start(s, c)
    \/ \E s \in SId, b \in {None} \cup Tokens : resource_execute(s, b)
    \/ \E s \in SId : server_respond(s)
    \/ get_index
    \/ \E c \in CId, e \in authorizer :
            get_redirect_accept(c, [error |-> FALSE, code |-> e.code,
                                    state |-> code_grant_state])
    \/ \E c \in CId : post_refresh_start(c)
    \/ \E c \in CId : get_home_start(c)
    \/ \E c \in CId : get_home_read_refresh(c)
    \/ \E c \in CId, s \in SId : client_recv(c, s, FALSE)
    \/ \E c \in CId : client_store_access(c)
    \/ \E c \in CId : client_store_refresh(c)

SessionSpec == Init /\ [][SessionNext]_vars

\* The authorization and resource servers under any requests, the
\* registered client's among them.
ServerNext ==
    \/ \E s \in SId, gt \in GrantTypes : post_token_start(s, 0, gt)
    \/ \E s \in SId, gt \in GrantTypes : post_token_bad(s, gt)
    \/ \E s \in SId : endpoint_lock_authorizer(s)
    \/ \E s \in SId : endpoint_lock_issuer(s)
    \/ \E s \in SId, p \in TokenRequests, opt \in BOOLEAN,
          consume \in BOOLEAN :
            post_token_execute(s, p, opt, consume)
    \/ \E s \in SId : post_consent_start(s)
    \/ \E s \in SId, p \in ConsentRequests : post_consent_execute(s, p)
    \/ \E s \in SId : get_authorize_start(s)
    \/ \E s \in SId, p \in AuthorizeRequests : get_authorize_bad(s, p)
    \/ \E s \in SId, p \in AuthorizeRequests : get_authorize_execute(s, p)
    \/ \E s \in SId : resource_start(s, 0)
    \/ \E s \in SId, b \in {None} \cup Tokens : resource_execute(s, b)
    \/ \E s \in SId : server_respond(s)
    \/ \E t \in Tokens : access_token_expires(t)

ServerSpec == Init /\ [][ServerNext]_vars

\* The step handler s can take once it is in endpoint(): the next lock,
\* the flow on the request it was called with, the response.
HandlerStep(s) ==
    \/ endpoint_lock_authorizer(s)
    \/ \E p \in TokenRequests, opt \in BOOLEAN, consume \in BOOLEAN :
          post_token_execute(s, p, opt, consume)
    \/ \E p \in ConsentRequests : post_consent_execute(s, p)
    \/ \E p \in AuthorizeRequests : get_authorize_execute(s, p)
    \/ \E b \in {None} \cup Tokens : resource_execute(s, b)
    \/ server_respond(s)

\* Every handler is a task of the tokio runtime and runs while it can; a
\* handler blocked in lock() on the issuer mutex, which the resource
\* server's requests take and release, gets it once it has been released
\* often enough.
ServerFairness ==
    \A s \in SId :
       /\ WF_vars(HandlerStep(s))
       /\ SF_vars(endpoint_lock_issuer(s))

\* The servers under concurrent requests of every kind, fairly scheduled:
\* token requests with any grant_type, consent decisions, authorize
\* requests and resource requests, two at a time.  The issuer hands out a
\* refresh token with every access token and time does not pass an expiry.
FairServerNext ==
    \/ \E s \in SId, gt \in GrantTypes : post_token_start(s, 0, gt)
    \/ \E s \in SId, gt \in GrantTypes : post_token_bad(s, gt)
    \/ \E s \in SId : endpoint_lock_authorizer(s)
    \/ \E s \in SId : endpoint_lock_issuer(s)
    \/ \E s \in SId, p \in TokenRequests :
            post_token_execute(s, p, TRUE, TRUE)
    \/ \E s \in SId : post_consent_start(s)
    \/ \E s \in SId, p \in ConsentRequests : post_consent_execute(s, p)
    \/ \E s \in SId : get_authorize_start(s)
    \/ \E s \in SId : get_authorize_bad(s, NoParams)
    \/ \E s \in SId, p \in AuthorizeRequests : get_authorize_execute(s, p)
    \/ \E s \in SId : resource_start(s, 0)
    \/ \E s \in SId, b \in {None} \cup Tokens : resource_execute(s, b)
    \/ \E s \in SId : server_respond(s)

FairServerSpec == Init /\ [][FairServerNext]_vars /\ ServerFairness

\* The end-to-end flow of one resource owner, step by step: the login page
\* is opened once, the browser follows the authorization URL, the owner
\* approves on the consent page, the browser follows the redirect to the
\* client's callback with the code and state it was given, the client
\* exchanges the code and stores the tokens, and the owner opens the home
\* page.  No request or response is lost.  Beside it, anyone sends
\* resource requests with any bearer token, one at a time.
FlowLogin ==
    /\ code_grant_state = None
    /\ get_index

FlowAuthorize ==
    /\ code_grant_state # None
    /\ solicited = {}
    /\ \A t \in SId : sreq[t].kind # "authorize"
    /\ \E s \in SId : get_authorize_start(s)

FlowConsentPage ==
    \E s \in SId :
       get_authorize_execute(s, ClientAuthorizeRequest(code_grant_state))

FlowApprove ==
    /\ solicited # {}
    /\ nextCode = 1
    /\ \A t \in SId : sreq[t].kind \notin {"authorize", "consent"}
    /\ \E s \in SId : post_consent_start(s)

FlowIssueCode ==
    \E s \in SId :
       \E p \in ConsentForm(ClientAuthorizeRequest(code_grant_state)) :
          /\ p.allow = 1
          /\ post_consent_execute(s, p)

FlowCallback ==
    /\ access_token = None
    /\ \A c \in CId : creq[c].pc = "idle"
    /\ \A t \in SId : sreq[t].kind # "consent"
    /\ \E c \in CId, e \in authorizer :
          get_redirect_accept(c, [error |-> FALSE, code |-> e.code,
                                  state |-> code_grant_state])

FlowExchange ==
    \E s \in SId, c \in CId : post_token_start(s, c, "authorization_code")

FlowLockAuthorizer == \E s \in SId : endpoint_lock_authorizer(s)

FlowLockIssuer == \E s \in SId : endpoint_lock_issuer(s)

FlowTokens ==
    \E s \in SId, c \in CId, opt \in BOOLEAN :
       /\ sreq[s].origin = c
       /\ post_token_execute(s, ClientTokenRequest(c), opt, TRUE)

FlowRespond == \E s \in SId : server_respond(s)

FlowReceive == \E c \in CId, s \in SId : client_recv(c, s, FALSE)

FlowStoreAccess == \E c \in CId : client_store_access(c)

FlowStoreRefresh == \E c \in CId : client_store_refresh(c)

FlowHome ==
    /\ access_token # None
    /\ \E c \in CId : get_home_start(c)

FlowHomeRead == \E c \in CId : get_home_read_refresh(c)

FlowResource == \E s \in SId, c \in CId : resource_start(s, c)

FlowProbe ==
    /\ \A t \in SId : sreq[t].kind = "resource" => sreq[t].origin # 0
    /\ \E s \in SId : resource_start(s, 0)

FlowGuard == \E s \in SId, b \in {None} \cup Tokens : resource_execute(s, b)

FlowNext ==
    \/ FlowLogin
    \/ FlowAuthorize
    \/ FlowConsentPage
    \/ FlowApprove
    \/ FlowIssueCode
    \/ FlowCallback
    \/ FlowExchange
    \/ FlowLockAuthorizer
    \/ FlowLockIssuer
    \/ FlowTokens
    \/ FlowRespond
    \/ FlowReceive
    \/ FlowStoreAccess
    \/ FlowStoreRefresh
    \/ FlowHome
    \/ FlowHomeRead
    \/ FlowResource
    \/ FlowProbe
    \/ FlowGuard

\* Every handler is a task of the tokio runtime and runs once it can; the
\* owner and the browser take their steps.  Where a handler waits for the
\* issuer mutex that other requests take and release, it gets the mutex
\* once it has been released often enough.
FlowFairness ==
    /\ WF_vars(FlowLogin)
    /\ WF_vars(FlowAuthorize)
    /\ WF_vars(FlowConsentPage)
    /\ WF_vars(FlowApprove)
    /\ WF_vars(FlowIssueCode)
    /\ WF_vars(FlowCallback)
    /\ WF_vars(FlowExchange)
    /\ WF_vars(FlowLockAuthorizer)
    /\ SF_vars(FlowLockIssuer)
    /\ WF_vars(FlowTokens)
    /\ WF_vars(FlowRespond)
    /\ WF_vars(FlowReceive)
    /\ WF_vars(FlowStoreAccess)
    /\ WF_vars(FlowStoreRefresh)
    /\ WF_vars(FlowHome)
    /\ WF_vars(FlowHomeRead)
    /\ SF_vars(FlowResource)
    /\ WF_vars(FlowGuard)

FlowSpec == Init /\ [][FlowNext]_vars /\ FlowFairness


\* ------------------------------------------- properties

\* Server handler s runs its flow in this step; afterwards sreq'[s] holds
\* the request it ran on and the response.
Executes(s, kind) ==
    /\ sreq[s].pc = "exec"
    /\ sreq[s].kind = kind
    /\ sreq'[s].pc = "release"

\* Server handler s has run its flow on a request of this kind.
Executed(s, kind) ==
    /\ sreq[s].pc = "release"
    /\ sreq[s].kind = kind

\* get_redirect passes its checks in this step and goes on to the
\* exchange; creq'[c].q is the callback's query.
Accepts(c) ==
    /\ creq[c].pc = "idle"
    /\ creq'[c].pc = "send"
    /\ creq'[c].op = "redirect"

\* The client stores a token in this step.
TokensChange == access_token' # access_token \/ refresh_token' # refresh_token

\* C1: an authorization code is redeemed at most once: of all the token
\* requests that present one code, concurrent ones included, at most one is
\* answered with tokens.
C1_CodeRedeemedOnce ==
    \A c \in Codes : redemptions[c] <= 1

\* C1, the case: a code has been redeemed, and a further request of the
\* registered client for the same code, with the right redirect URI, has
\* been refused.
C1_ReplayRefused ==
    \E s \in SId :
        /\ Executed(s, "token")
        /\ sreq[s].p.grant_type = "authorization_code"
        /\ sreq[s].p.secret = CLIENT_SECRET
        /\ sreq[s].p.redirect_uri = REDIRECT_URI
        /\ redemptions[sreq[s].p.code] = 1
        /\ sreq[s].resp.status = "InvalidGrant"
        /\ sreq[s].resp.access = None

\* C2: a callback whose state parameter is absent, or differs from the
\* stored state, or that arrives with no stored state, is never accepted
\* for the exchange: every accepted callback carries the stored state; and
\* a callback rejected for one of these causes sends no request and leaves
\* the stored tokens as they were.
C2_StateChecked ==
    [][ /\ \A c \in CId :
             Accepts(c) => /\ code_grant_state # None
                           /\ creq'[c].q.state # None
                           /\ creq'[c].q.state = code_grant_state
        /\ ev' \in {"no_state", "missing_state", "state_mismatch"} =>
             UNCHANGED <<access_token, refresh_token, creq, sreq>>
      ]_vars

\* C2, the case: a callback has just been rejected for a state that is not
\* the stored one, while tokens are stored.
C2_MismatchRejected ==
    /\ ev = "state_mismatch"
    /\ code_grant_state # None
    /\ access_token # None
    /\ refresh_token # None

\* C3: once get_redirect has compared the callback's state with the stored
\* one, the stored state is cleared (so that a second callback with the
\* same state is rejected).
C3_StateClearedAfterCompare ==
    [][ ((\E c \in CId : Accepts(c)) \/ ev' = "state_mismatch") =>
            code_grant_state' = None
      ]_vars

\* C3, the case in the code: two callbacks carrying the same state value
\* have both been accepted and are both on their way to the exchange.
C3_SameStateAcceptedTwice ==
    \E c, d \in CId :
        /\ c # d
        /\ creq[c].op = "redirect"
        /\ creq[d].op = "redirect"
        /\ creq[c].q.state = creq[d].q.state
        /\ code_grant_state = creq[c].q.state

\* C4: after get_redirect has rejected a callback for a state mismatch or
\* an upstream error, no callback is accepted until get_index has been
\* called again.
C4_FailureIsFatal ==
    [][ attemptFailed => ~ \E c \in CId : Accepts(c) ]_vars

\* C5: a callback with an error parameter, or without a code, is never
\* accepted for the exchange, whatever else it carries; its rejection sends
\* no request and leaves the stored state and tokens as they were.
C5_ErrorOrNoCodeRejected ==
    [][ /\ \A c \in CId :
             Accepts(c) => /\ ~creq'[c].q.error
                           /\ creq'[c].q.code # None
        /\ ev' \in {"upstream_error", "no_code"} =>
             UNCHANGED <<code_grant_state, access_token, refresh_token,
                         creq, sreq>>
      ]_vars

\* C5, the case: a callback has just been rejected for its error parameter
\* while a state and tokens are stored.
C5_UpstreamErrorRejected ==
    /\ ev = "upstream_error"
    /\ code_grant_state # None
    /\ access_token # None
    /\ refresh_token # None

\* C6: a token exchange of get_redirect or post_refresh that fails leaves
\* the stored access and refresh token unchanged; a stored token changes
\* only in the storing step of a handler that holds a successful response.
C6_FailedExchangeKeepsTokens ==
    [][ /\ ev' \in {"redirect_exchange_error", "refresh_exchange_error"} =>
             UNCHANGED <<access_token, refresh_token>>
        /\ TokensChange =>
             \E c \in CId :
                /\ creq[c].pc \in {"store_access", "store_refresh"}
                /\ creq[c].a # None
                /\ creq'[c] # creq[c]
      ]_vars

\* C6, the case: the exchange of post_refresh has just failed while both
\* tokens are stored.
C6_RefreshFailedWithTokens ==
    /\ ev = "refresh_exchange_error"
    /\ access_token # None
    /\ refresh_token # None

\* C7: a get_home that has read the stored access and refresh token never
\* holds the new token of a refresh together with the old one: the access
\* token of a rotation with the refresh token it replaced, or the reverse.
C7_NoTornPair ==
    \A h \in CId :
        (creq[h].op = "home" /\ creq[h].pc \in {"send", "wait"}) =>
            \A rot \in rotations :
                /\ ~(creq[h].a = rot[2] /\ creq[h].r = rot[1])
                /\ ~(creq[h].a = rot[1] /\ creq[h].r = rot[2])

\* C8: a rotation invalidates the refresh token it replaces in the step
\* that issues the new one: a rotated refresh token is never valid again,
\* so never valid together with its replacement, it is rotated once, and
\* the only request presenting it that is answered with tokens is the one
\* that rotated it.
C8_RotationInvalidates ==
    /\ \A rot \in rotations :
          /\ rot[1] \notin ValidRefresh(issuer)
          /\ ~(rot[1] \in ValidRefresh(issuer) /\ rot[2] \in ValidRefresh(issuer))
          /\ \A other \in rotations : other[1] = rot[1] => other = rot
    /\ \A s \in SId :
          (/\ Executed(s, "token")
           /\ sreq[s].p.grant_type = "refresh_token"
           /\ sreq[s].resp.status = "TokenOk"
           /\ \E rot \in rotations : rot[1] = sreq[s].p.refresh_token) =>
              <<sreq[s].p.refresh_token, sreq[s].resp.refresh>> \in rotations

\* C8, the case: a refresh token has been rotated, and a later request of
\* the registered client presenting it has been refused.
C8_RotatedTokenRefused ==
    \E s \in SId :
        /\ Executed(s, "token")
        /\ sreq[s].p.grant_type = "refresh_token"
        /\ sreq[s].p.secret = CLIENT_SECRET
        /\ sreq[s].p.scope = {}
        /\ \E rot \in rotations :
              /\ rot[1] = sreq[s].p.refresh_token
              /\ rot[2] \in ValidRefresh(issuer)
        /\ sreq[s].resp.status = "InvalidGrant"

\* C9: every token's scope is within the scope of the grant its line of
\* refreshes began with; a refresh that succeeds answers with a scope
\* within the presented refresh token's; a refresh asking for a scope that
\* is not within it fails, issues nothing and leaves the token store as it
\* was.
C9_RefreshScopeSubset ==
    [][ /\ \A e \in issuer'.access \cup issuer'.refresh :
             e.scope \subseteq e.orig
        /\ \A s \in SId :
             (Executes(s, "token") /\ sreq'[s].p.grant_type = "refresh_token") =>
                \A g \in IssuerRefreshLookup(issuer, sreq'[s].p.refresh_token) :
                   /\ sreq'[s].resp.status = "TokenOk" =>
                         /\ sreq'[s].resp.scope \subseteq g.scope
                         /\ sreq'[s].resp.scope \subseteq g.orig
                   /\ ~(sreq'[s].p.scope \subseteq g.scope) =>
                         /\ sreq'[s].resp.status # "TokenOk"
                         /\ sreq'[s].resp.access = None
                         /\ sreq'[s].resp.refresh = None
                         /\ issuer' = issuer
                         /\ nextToken' = nextToken
      ]_vars

\* C9, the case: the registered client has presented a valid refresh token
\* with a scope beyond its grant's, and has been refused.
C9_WiderScopeRefused ==
    \E s \in SId :
        /\ Executed(s, "token")
        /\ sreq[s].p.grant_type = "refresh_token"
        /\ sreq[s].p.secret = CLIENT_SECRET
        /\ \E g \in IssuerRefreshLookup(issuer, sreq[s].p.refresh_token) :
              ~(sreq[s].p.scope \subseteq g.scope)
        /\ sreq[s].resp.status = "InvalidScope"

\* The entry validation of the authorization flow passes on request p.
ConsentRequestValid(p) ==
    p.response_type = "code" /\ RegistrarValidate(registrar, p)

\* C10, as amended: a consent request without the allow parameter never
\* issues a code: it ends with the access-denied redirect if it passes the
\* flow's entry validation and with BadRequest if it does not; a code is
\* issued only on a request that carries allow.
C10_NoAllowNoCode ==
    [][ \A s \in SId :
          Executes(s, "consent") =>
             /\ sreq'[s].p.allow = 0 =>
                   /\ authorizer' = authorizer
                   /\ nextCode' = nextCode
                   /\ sreq'[s].resp.code = None
                   /\ sreq'[s].resp.status =
                        IF ConsentRequestValid(sreq'[s].p)
                        THEN "RedirectDenied" ELSE "BadRequest"
             /\ (authorizer' # authorizer \/ sreq'[s].resp.code # None) =>
                   sreq'[s].p.allow # 0
      ]_vars

\* C10, the case: a valid consent request with deny and without allow has
\* been answered with the access-denied redirect, and no code is live.
C10_DenyAnswered ==
    \E s \in SId :
        /\ Executed(s, "consent")
        /\ sreq[s].p.allow = 0
        /\ sreq[s].p.deny
        /\ ConsentRequestValid(sreq[s].p)
        /\ sreq[s].resp.status = "RedirectDenied"
        /\ sreq[s].resp.code = None
        /\ authorizer = {}

\* C10, as written: every consent request without the allow parameter ends
\* with the access-denied outcome.
C10_NoAllowAlwaysDenied ==
    \A s \in SId :
        (Executed(s, "consent") /\ sreq[s].p.allow = 0) =>
            sreq[s].resp.status = "RedirectDenied"

\* C11: every code the server issues is preceded by a consent page that
\* get_authorize rendered for the same client_id, redirect_uri and client
\* state.
C11_CodeAfterSolicitation ==
    [][ \A s \in SId :
          (Executes(s, "consent") /\ sreq'[s].resp.status = "RedirectCode") =>
             <<sreq'[s].p.client_id, sreq'[s].p.redirect_uri,
               sreq'[s].p.state>> \in solicited
      ]_vars

\* C11, the case in the code: a code is live and no consent page has ever
\* been rendered.
C11_CodeWithoutSolicitation ==
    /\ authorizer # {}
    /\ solicited = {}

\* Server handler s answers in this step, from the flow or before it.
Answers(s, kind) ==
    /\ sreq[s].pc # "release"
    /\ sreq'[s].pc = "release"
    /\ sreq'[s].kind = kind

\* C12: an authorize request whose response_type is not "code", whose
\* client is unknown, or whose scope is not within the client's registered
\* scope is answered BadRequest; no consent page is rendered for it and the
\* registrar, the code store and the token store stay as they were.
C12_InvalidAuthorizeRejected ==
    [][ \A s \in SId :
          (/\ Answers(s, "authorize")
           /\ \/ sreq'[s].p.response_type # "code"
              \/ RegistrarLookup(registrar, sreq'[s].p.client_id) = {}
              \/ \E c \in RegistrarLookup(registrar, sreq'[s].p.client_id) :
                    ~(sreq'[s].p.scope \subseteq c.scope)) =>
             /\ sreq'[s].resp = Resp("BadRequest")
             /\ UNCHANGED <<registrar, authorizer, issuer, nextCode,
                            nextToken, solicited>>
      ]_vars

\* C12, the case: the registered client has asked for a scope beyond its
\* registered one and has been answered BadRequest.
C12_WideScopeRefused ==
    \E s \in SId :
        /\ Executed(s, "authorize")
        /\ sreq[s].p.response_type = "code"
        /\ sreq[s].p.client_id = CLIENT_ID
        /\ sreq[s].p.redirect_uri = REDIRECT_URI
        /\ sreq[s].p.scope = {SCOPE, "admin"}
        /\ sreq[s].resp.status = "BadRequest"
        /\ solicited = {}

\* C13: the resource guard returns the resource only for a bearer token
\* the issuer store knows, whose expiry has not passed and whose scope
\* covers the required one; a missing, unknown, expired or under-scoped
\* token is answered by the same single Unauthorized response.
C13_GuardUniform401 ==
    [][ \A s \in SId :
          Executes(s, "resource") =>
             LET b == sreq'[s].p.bearer
                 good == /\ b # None
                         /\ b \notin issuer.expired
                         /\ \E e \in issuer.access :
                               e.tok = b /\ {SCOPE} \subseteq e.scope
             IN  /\ good => sreq'[s].resp = Resp("ResourceOk")
                 /\ ~good => sreq'[s].resp = Resp("Unauthorized")
                 /\ UNCHANGED <<registrar, authorizer, issuer>> ]_vars

\* An expired token and a token never issued have both been answered
\* Unauthorized, and a valid one has been served.
C13_ExpiredAndUnknownRefused ==
    \E s, t \in SId :
       /\ Executed(s, "resource") /\ Executed(t, "resource")
       /\ sreq[s].p.bearer \in issuer.expired
       /\ sreq[s].resp = Resp("Unauthorized")
       /\ sreq[t].p.bearer # None
       /\ IssuerAccessLookup(issuer, sreq[t].p.bearer) = {}
       /\ sreq[t].resp = Resp("Unauthorized")

\* The resource server has answered the home page's request, made with
\* the access token the client holds, with the resource.
HomeServed ==
    \E s \in SId :
       /\ sreq[s].pc = "done"
       /\ sreq[s].origin # 0
       /\ creq[sreq[s].origin].op = "home"
       /\ creq[sreq[s].origin].a = access_token
       /\ sreq[s].resp = Resp("ResourceOk")

\* C14: in the end-to-end flow (the client registered as in main, the
\* owner approves, no exchange fails) the client eventually holds an access
\* token the authorization server issued, its resource request with that
\* token is eventually served, every resource request of the client is
\* served, and a request with a token that was never issued is answered
\* Unauthorized.
C14_EndToEnd ==
    /\ <>(access_token # None /\ IssuerValidate(issuer, access_token) # {})
    /\ <>HomeServed
    /\ [](\A s \in SId :
            (Executed(s, "resource") /\ sreq[s].origin # 0) =>
               sreq[s].resp = Resp("ResourceOk"))
    /\ [](\A s \in SId :
            (/\ Executed(s, "resource")
             /\ sreq[s].p.bearer # None
             /\ sreq[s].p.bearer >= nextToken) =>
               sreq[s].resp = Resp("Unauthorized"))

\* The client holds the issued token, the home page has been served with
\* it, and a request with a token never issued has been refused.
C14_ServedAndRefused ==
    /\ HomeServed
    /\ IssuerValidate(issuer, access_token) # {}
    /\ \E s \in SId :
          /\ Executed(s, "resource")
          /\ sreq[s].p.bearer # None
          /\ sreq[s].p.bearer >= nextToken
          /\ sreq[s].resp = Resp("Unauthorized")

\* C15: on a successful refresh the stored access token is replaced by the
\* response's, and the stored refresh token is replaced only if the
\* response carries one; with none in the response the stored refresh
\* token is kept.
C15_RefreshKeepsUnrotated ==
    [][ \A c \in CId :
          /\ (/\ creq[c].op = "refresh"
              /\ creq[c].pc = "store_access"
              /\ creq'[c].pc = "store_refresh") =>
                 access_token' = creq[c].a
          /\ (/\ creq[c].op = "refresh"
              /\ creq[c].pc = "store_refresh"
              /\ creq'[c].pc = "idle"
              /\ ~Poisoned("refresh_token")) =>
                 refresh_token' = IF creq[c].r = None THEN refresh_token
                                  ELSE creq[c].r ]_vars

\* post_refresh is about to store the refresh token of a response that
\* has none, while a refresh token is stored.
C15_UnrotatedResponse ==
    \E c \in CId :
       /\ creq[c].op = "refresh"
       /\ creq[c].pc = "store_refresh"
       /\ creq[c].r = None
       /\ refresh_token # None
       /\ ~Poisoned("refresh_token")

\* C16: the follow-up requests of a rendered consent page, Accept and
\* Deny, carry the client_id, redirect_uri, scope and state of the
\* authorize request the page was rendered for.
C16_ConsentFormVerbatim ==
    [][ \A s \in SId :
          (Executes(s, "authorize") /\ sreq'[s].resp.status = "ConsentPage") =>
             \A f \in ConsentForm(sreq'[s].p) :
                /\ f.client_id = sreq'[s].p.client_id
                /\ f.redirect_uri = sreq'[s].p.redirect_uri
                /\ f.scope = sreq'[s].p.scope
                /\ f.state = sreq'[s].p.state ]_vars

\* A consent page has been rendered for a request that names a scope,
\* and its form's requests keep client, redirect URI and state and name
\* no scope.
C16_FormDropsScope ==
    \E s \in SId :
       /\ Executed(s, "authorize")
       /\ sreq[s].resp.status = "ConsentPage"
       /\ sreq[s].p.scope = {SCOPE}
       /\ \A f \in ConsentForm(sreq[s].p) :
             /\ f.client_id = sreq[s].p.client_id
             /\ f.redirect_uri = sreq[s].p.redirect_uri
             /\ f.state = sreq[s].p.state
             /\ f.scope = {}

\* C17: the token endpoint dispatches on grant_type alone: a request
\* without a grant_type or with one other than authorization_code and
\* refresh_token is answered BadRequest and changes no store; an
\* authorization_code request runs the code exchange and rotates no
\* refresh token; a refresh_token request runs the refresh and touches no
\* code.
C17_DispatchOnGrantType ==
    [][ \A s \in SId :
          Answers(s, "token") =>
             LET gt == sreq'[s].p.grant_type IN
             /\ gt \notin {"authorization_code", "refresh_token"} =>
                   /\ sreq'[s].resp = Resp("BadRequest")
                   /\ UNCHANGED <<registrar, authorizer, issuer, nextCode,
                                  nextToken, redemptions, rotations>>
             /\ gt = "authorization_code" =>
                   /\ sreq'[s].resp.status
                         \in {"TokenOk", "InvalidClient", "InvalidGrant"}
                   /\ UNCHANGED rotations
                   /\ sreq'[s].resp.status = "TokenOk" =>
                         redemptions'[sreq'[s].p.code] =
                            redemptions[sreq'[s].p.code] + 1
             /\ gt = "refresh_token" =>
                   /\ sreq'[s].resp.status
                         \in {"TokenOk", "InvalidClient", "InvalidGrant",
                              "InvalidScope"}
                   /\ UNCHANGED <<authorizer, redemptions>> ]_vars

\* A token request with grant_type password has been answered BadRequest
\* while codes and tokens were in the stores.
C17_PasswordGrantRefused ==
    /\ issuer.access # {}
    /\ \E s \in SId :
          /\ Executed(s, "token")
          /\ sreq[s].p.grant_type = "password"
          /\ sreq[s].resp = Resp("BadRequest")

\* C18: get_authorize never issues a code: every authorize request is
\* answered BadRequest or with the consent page, and the code store, the
\* token store and the registrar are as they were before.
C18_AuthorizeIssuesNothing ==
    [][ \A s \in SId :
          Answers(s, "authorize") =>
             /\ sreq'[s].resp.status \in {"BadRequest", "ConsentPage"}
             /\ sreq'[s].resp.code = None
             /\ UNCHANGED <<registrar, authorizer, issuer, nextCode,
                            nextToken>> ]_vars

\* The consent page of a valid request has been rendered and no code and
\* no token is in any store.
C18_PageRenderedStoresEmpty ==
    /\ authorizer = {}
    /\ issuer = EmptyIssuer
    /\ nextCode = 1
    /\ \E s \in SId :
          /\ Executed(s, "authorize")
          /\ sreq[s].resp.status = "ConsentPage"
          /\ sreq[s].p = ClientAuthorizeRequest(1)

\* C19: get_home sends one resource request, with the access token that
\* was stored when the handler read it, and ends with the response,
\* whatever it is: it sends no second request, starts no token exchange
\* and leaves the stored access token, refresh token and anti-forgery state
\* as they are.
C19_HomeOneRequestNoWrites ==
    [][ /\ \A c \in CId :
             (/\ creq'[c] # creq[c]
              /\ creq[c].op = "home" \/ creq'[c].op = "home") =>
                /\ UNCHANGED <<access_token, refresh_token, code_grant_state>>
                /\ creq[c].pc = "idle" =>
                      /\ creq'[c].pc = "read_refresh"
                      /\ creq'[c].a = access_token
                      /\ access_token # None
                /\ creq[c].pc = "read_refresh" => creq'[c].pc \in {"send", "idle"}
                /\ creq[c].pc = "send" => creq'[c].pc \in {"wait", "idle"}
                /\ creq[c].pc = "wait" => creq'[c] = IdleC
                /\ creq[c].pc # "idle" /\ creq'[c].pc # "idle" =>
                      /\ creq'[c].op = "home"
                      /\ creq'[c].a = creq[c].a
        /\ \A s \in SId :
             (Executes(s, "resource") /\ sreq[s].origin # 0) =>
                sreq'[s].p.bearer = creq[sreq[s].origin].a
        /\ \A s \in SId :
             (sreq[s].pc = "idle" /\ sreq'[s].pc # "idle"
                /\ sreq'[s].origin # 0 /\ creq[sreq'[s].origin].op = "home") =>
                sreq'[s].kind = "resource" ]_vars

\* The resource server has answered a get_home request with 401 while
\* the client holds a token pair.
C19_HomeUnauthorized ==
    /\ access_token # None
    /\ refresh_token # None
    /\ \E s \in SId :
          /\ sreq[s].pc = "done"
          /\ sreq[s].origin # 0
          /\ creq[sreq[s].origin].op = "home"
          /\ creq[sreq[s].origin].pc = "wait"
          /\ sreq[s].resp = Resp("Unauthorized")

\* C20: get_home with no access token stored and post_refresh with no
\* refresh token stored fail that request only: they send nothing and
\* leave the session as it was and usable, so that a callback whose
\* exchange succeeds afterwards stores its tokens, and get_home and
\* post_refresh with a token stored send their request.
C20_FailedCallLeavesSessionUsable ==
    [][ \A c \in CId :
          /\ (creq[c].pc = "store_access" /\ creq'[c].pc # "store_access") =>
                access_token' = creq[c].a
          /\ (/\ creq[c].op = "redirect"
              /\ creq[c].pc = "store_refresh"
              /\ creq'[c].pc = "idle") =>
                refresh_token' = creq[c].r
          /\ (creq[c].pc = "read_refresh" /\ creq'[c].pc # "read_refresh") =>
                creq'[c].pc = "send" ]_vars

\* After a get_home with no access token stored, a callback has passed its
\* checks, its exchange has succeeded and it is about to store the tokens.
C20_StoreAfterFailedHome ==
    /\ Poisoned("access_token")
    /\ access_token = None
    /\ \E c \in CId :
          /\ creq[c].op = "redirect"
          /\ creq[c].pc = "store_access"
          /\ creq[c].a # None

\* C21: whenever no client handler is in progress, the stored access
\* token and the stored refresh token, if there is one, are of the same
\* token response.
C21_QuiescentPairOfOneResponse ==
    (/\ \A c \in CId : creq[c].pc = "idle"
     /\ access_token # None
     /\ refresh_token # None) =>
        access_token = refresh_token

\* A callback of a re-authorization is about to finish after storing the
\* access token of a response without a refresh token, while the refresh
\* token of the earlier response is stored.
C21_ReauthorizedWithoutRefresh ==
    \E c \in CId :
       /\ creq[c].op = "redirect"
       /\ creq[c].pc = "store_access"
       /\ creq[c].r = None
       /\ refresh_token # None
       /\ refresh_token # creq[c].a
       /\ ~Poisoned("access_token")

\* C22: the client holds one pending anti-forgery state, the one of the
\* most recent authorization URL: every get_index stores the state it
\* minted in place of the previous one, and a callback is accepted only
\* with the state of the most recent URL; one with an earlier state is
\* rejected and sends no exchange.
C22_OnlyLatestStatePending ==
    [][ /\ nextCsrf' # nextCsrf =>
             /\ code_grant_state' = nextCsrf
             /\ code_grant_state' # code_grant_state
        /\ code_grant_state' # None => code_grant_state' = nextCsrf' - 1
        /\ \A c \in CId :
             Accepts(c) => creq'[c].q.state = nextCsrf - 1
        /\ ev' = "state_mismatch" =>
             UNCHANGED <<creq, sreq, access_token, refresh_token,
                         code_grant_state>> ]_vars

\* After two get_index calls the state of the second URL is stored and a
\* callback with a code and the state of the first URL has just been
\* rejected, with nothing sent.
C22_EarlierStateRejected ==
    /\ nextCsrf = 3
    /\ code_grant_state = 2
    /\ ev = "state_mismatch"
    /\ \A c \in CId : creq[c].pc = "idle"
    /\ \A t \in SId : sreq[t].pc = "idle"
    /\ authorizer # {}

\* The guards handler s holds.
Held(s) == {m \in DOMAIN lock : lock[m] = s}

C24_NoGuardAcrossRoundTrip ==
    (\E c \in CId : creq[c].pc \in {"send", "wait"}) =>
        /\ MutexFree("code_grant_state")
        /\ MutexFree("access_token")
        /\ MutexFree("refresh_token")

\* While a refresh exchange is outstanding, a concurrent get_home has
\* read the stored access token and is about to read the refresh token.
C24_ReadDuringExchange ==
    \E c, d \in CId :
       /\ creq[c].op = "refresh"
       /\ creq[c].pc = "wait"
       /\ creq[d].op = "home"
       /\ creq[d].pc = "read_refresh"
       /\ creq[d].a = access_token
       /\ MutexFree("refresh_token")

====
